---------------------------- MODULE Spec2Model ----------------------------
(***************************************************************************)
(* contextro: walk a directory tree and concatenate every non-ignored,     *)
(* non-binary file into one timestamped artifact.  Two variants exist:     *)
(* Contextro (contextro.py) and ContextBuilder (context_builder.py).       *)
(*                                                                         *)
(* Strings are sequences of one-character strings, so that fnmatch is      *)
(* computed character by character.  A path is a sequence of names         *)
(* (its components below the root directory).                              *)
(***************************************************************************)
EXTENDS Integers, Sequences, FiniteSets, TLC

(***************************************************************************)
(* Bounds of the model.                                                    *)
(***************************************************************************)
\* build_context is called at most MaxRuns times on the same root
MaxRuns == 2
\* the clock (seconds) runs from 1 to MaxTime
MaxTime == 2

(***************************************************************************)
(* String literals of the program and of the inputs.                       *)
(***************************************************************************)
ContextroPrefix == <<"c","o","n","t","e","x","t","r","o","_","c","o","n","t","e","x","t","_">>
BuilderPrefix == <<"c","o","n","t","e","x","t","_">>
TxtSuffix == <<".","t","x","t">>
StarStarSlash == <<"*","*","/">>
SlashStarStar == <<"/","*","*">>
\* the pattern Contextro.__init__ appends
BuiltinPattern == ContextroPrefix \o <<"*">> \o TxtSuffix
\* the name build_context filters out of every directory listing
DotContextignore == <<".","c","o","n","t","e","x","t","i","g","n","o","r","e">>
\* an ignore-file name given with --ignore-file
MyIgnore == <<"m","y",".","i","g","n","o","r","e">>

N_xlog == <<"x",".","l","o","g">>
N_important == <<"i","m","p","o","r","t","a","n","t",".","t","x","t">>
N_build == <<"b","u","i","l","d">>
N_foo == <<"f","o","o">>
N_sub == <<"s","u","b">>
N_c == <<"c",".","t","x","t">>
N_d == <<"d",".","t","x","t">>

\* lines of ignore files, as read (before strip)
L_starlog == <<"*",".","l","o","g">>
L_notxlog == <<"!">> \o N_xlog
L_notimportant == <<"!">> \o N_important
L_startxt == <<"*">> \o TxtSuffix
L_foodir == <<" ">> \o N_foo \o <<"/"," ","\n">>
L_builddir == N_build \o <<"/">>
L_notall == <<"!","*">>
L_comment == <<"#"," ","f","o","o","/","\n">>
L_blank == <<" ","\n">>

\* bytes read for the binary check
ChunkSize == 1024

(***************************************************************************)
(* fnmatch.fnmatch(name, pat) on POSIX (normcase is the identity): '*'     *)
(* matches any run of characters, '/' included, '?' one character, and     *)
(* every other character itself.  The patterns of this model hold no '['.  *)
(* FnMatchFrom(name, i, pat, j): name from position i on matches pat from  *)
(* position j on.                                                          *)
(***************************************************************************)
RECURSIVE FnMatchFrom(_, _, _, _)
FnMatchFrom(name, i, pat, j) ==
    IF j > Len(pat) THEN i > Len(name)
    ELSE IF pat[j] = "*"
    THEN IF j = Len(pat) THEN TRUE
         ELSE IF pat[j+1] = "*" THEN FnMatchFrom(name, i, pat, j + 1)
         ELSE \E k \in i..(Len(name) + 1) : FnMatchFrom(name, k, pat, j + 1)
    ELSE /\ i <= Len(name)
         /\ (pat[j] = "?" \/ pat[j] = name[i])
         /\ FnMatchFrom(name, i + 1, pat, j + 1)

fnmatch(name, pat) == FnMatchFrom(name, 1, pat, 1)

(***************************************************************************)
(* str.strip(), str.startswith, str.endswith                               *)
(***************************************************************************)
IsSpace(c) == c \in {" ", "\n", "\t"}

RECURSIVE LStrip(_)
LStrip(s) == IF s # <<>> /\ IsSpace(Head(s)) THEN LStrip(Tail(s)) ELSE s

RECURSIVE RStrip(_)
RStrip(s) ==
    IF s # <<>> /\ IsSpace(s[Len(s)]) THEN RStrip(SubSeq(s, 1, Len(s) - 1)) ELSE s

Strip(s) == RStrip(LStrip(s))

StartsWith(s, c) == s # <<>> /\ s[1] = c

EndsWith(s, c) == s # <<>> /\ s[Len(s)] = c

(***************************************************************************)
(* _load_ignore_patterns: the stripped lines of the ignore file that are   *)
(* neither empty nor comments, in file order.  A missing file gives none.  *)
(***************************************************************************)
RECURSIVE LoadLines(_)
LoadLines(lines) ==
    IF lines = <<>> THEN <<>>
    ELSE LET line == Strip(Head(lines))
         IN  IF line # <<>> /\ ~StartsWith(line, "#")
             THEN <<line>> \o LoadLines(Tail(lines))
             ELSE LoadLines(Tail(lines))

\* str(Path(path).resolve().relative_to(self.root_dir)): the names joined by '/'
RECURSIVE RelPath(_)
RelPath(path) ==
    IF path = <<>> THEN <<".">>
    ELSE IF Len(path) = 1 THEN path[1]
    ELSE path[1] \o <<"/">> \o RelPath(Tail(path))

(***************************************************************************)
(* Contextro._should_ignore, one pass of the loop body for one pattern:    *)
(* "keep" and "ignore" are the two returns, "next" falls through to the    *)
(* next pattern.  rel is rel_path, relSlash is rel_path_with_slash.        *)
(* In the negation branch the loop runs over the variations but tests      *)
(* clean_pattern each time (contextro.py line 51).                         *)
(***************************************************************************)
PatternVariations(pattern) ==
    << pattern,
       StarStarSlash \o pattern,
       StarStarSlash \o pattern \o SlashStarStar >>

ContextroPatternStep(pattern, rel, relSlash) ==
    LET pattern_variations == PatternVariations(pattern)
    IN  IF StartsWith(pattern, "!")
        THEN LET clean_pattern == Tail(pattern)
             IN  IF \E v \in 1..Len(pattern_variations) : fnmatch(rel, clean_pattern)
                 THEN "keep" ELSE "next"
        ELSE IF \E v \in 1..Len(pattern_variations) :
                    IF EndsWith(pattern, "/")
                    THEN fnmatch(relSlash, pattern_variations[v])
                    ELSE fnmatch(rel, pattern_variations[v])
             THEN "ignore" ELSE "next"

\* a slip: the last matching pattern decides (gitignore's own rule)
RECURSIVE ContextroScanLastWins(_, _, _, _)
ContextroScanLastWins(patterns, i, rel, relSlash) ==
    IF i > Len(patterns) THEN FALSE
    ELSE LET r == ContextroPatternStep(patterns[i], rel, relSlash)
             later == { j \in (i+1)..Len(patterns) :
                          ContextroPatternStep(patterns[j], rel, relSlash) # "next" }
         IN  IF r # "next" /\ later = {} THEN r = "ignore"
             ELSE ContextroScanLastWins(patterns, i + 1, rel, relSlash)

\* the for loop over self.ignore_patterns, from index i on
RECURSIVE ContextroScan(_, _, _, _)
ContextroScan(patterns, i, rel, relSlash) ==
    IF i > Len(patterns) THEN FALSE
    ELSE LET r == ContextroPatternStep(patterns[i], rel, relSlash)
         IN  IF r = "ignore" THEN TRUE
             ELSE IF r = "keep" THEN FALSE
             ELSE ContextroScan(patterns, i + 1, rel, relSlash)

\* a slip: rel_path_with_slash without the trailing slash
RelPathWithSlashNoSlash(rel, isdir) == rel

\* rel_path + '/' if os.path.isdir(path) else rel_path
RelPathWithSlash(rel, isdir) == IF isdir THEN rel \o <<"/">> ELSE rel

Contextro_should_ignore(patterns, path, isdir) ==
    LET rel_path == RelPath(path)
        rel_path_with_slash == RelPathWithSlash(rel_path, isdir)
    IN  ContextroScan(patterns, 1, rel_path, rel_path_with_slash)

(***************************************************************************)
(* ContextBuilder._should_ignore: one test per pattern, and the directory  *)
(* branch appends '/' to rel_path whatever the path is.                    *)
(***************************************************************************)
BuilderPatternStep(pattern, rel) ==
    IF StartsWith(pattern, "!")
    THEN IF fnmatch(rel, Tail(pattern)) THEN "keep" ELSE "next"
    ELSE IF EndsWith(pattern, "/")
    THEN IF fnmatch(rel \o <<"/">>, pattern) THEN "ignore" ELSE "next"
    ELSE IF fnmatch(rel, pattern) THEN "ignore" ELSE "next"

RECURSIVE BuilderScan(_, _, _)
BuilderScan(patterns, i, rel) ==
    IF i > Len(patterns) THEN FALSE
    ELSE LET r == BuilderPatternStep(patterns[i], rel)
         IN  IF r = "ignore" THEN TRUE
             ELSE IF r = "keep" THEN FALSE
             ELSE BuilderScan(patterns, i + 1, rel)

ContextBuilder_should_ignore(patterns, path) ==
    BuilderScan(patterns, 1, RelPath(path))

(***************************************************************************)
(* _is_binary: a file that cannot be opened is binary; otherwise it is     *)
(* binary when a null byte lies in chunk = f.read(1024), offsets 0..1023.  *)
(* A file is [openable, nulls (offsets of its null bytes), utf8].          *)
(***************************************************************************)
ChunkHasNullOneMore(nulls) == \E o \in nulls : o <= ChunkSize

ChunkHasNull(nulls) == \E o \in nulls : o < ChunkSize

IsBinary(e) == IF ~e.openable THEN TRUE ELSE ChunkHasNull(e.nulls)

(***************************************************************************)
(* The file system below the root directory: a set of entries.             *)
(***************************************************************************)
TextFile(path) ==
    [path |-> path, dir |-> FALSE, openable |-> TRUE, nulls |-> {}, utf8 |-> TRUE]

Dir(path) ==
    [path |-> path, dir |-> TRUE, openable |-> TRUE, nulls |-> {}, utf8 |-> TRUE]

\* what the content of a user file may be: plain text, a null byte at the end
\* of the first chunk, a null byte right after it, unreadable, not UTF-8
Kinds ==
    { [openable |-> TRUE,  nulls |-> {},              utf8 |-> TRUE],
      [openable |-> TRUE,  nulls |-> {ChunkSize - 1}, utf8 |-> TRUE],
      [openable |-> TRUE,  nulls |-> {ChunkSize},     utf8 |-> TRUE],
      [openable |-> FALSE, nulls |-> {},              utf8 |-> TRUE],
      [openable |-> TRUE,  nulls |-> {},              utf8 |-> FALSE] }

UserFile(path, k) ==
    [path |-> path, dir |-> FALSE, openable |-> k.openable, nulls |-> k.nulls,
     utf8 |-> k.utf8]

\* the files whose content varies
Candidates == { <<N_xlog>>, <<N_sub, N_important>> }

PlainFiles ==
    { <<N_important>>, <<N_build>>, <<N_foo, N_c>>, <<N_sub, N_foo, N_d>> }

Dirs == { <<N_foo>>, <<N_sub>>, <<N_sub, N_foo>> }

\* the contents an ignore file may have, as lists of lines
IgnoreFiles ==
    { << L_comment, L_blank >>,
      << L_starlog, L_notxlog >>,
      << L_notimportant, L_startxt >>,
      << L_comment, L_foodir, L_builddir >>,
      << L_notall >> }

\* datetime.now().strftime(...): the clock reading as text
Digits == <<"0","1","2","3","4","5","6","7","8","9">>

Timestamp(t) == <<Digits[(t % 10) + 1]>>

\* f'contextro_context_{timestamp}.txt' and f'context_{timestamp}.txt'
OutputName(v, t) ==
    (IF v = "contextro" THEN ContextroPrefix ELSE BuilderPrefix)
        \o Timestamp(t) \o TxtSuffix

\* an artifact left in the root by an earlier run of Contextro
OldArtifact == <<OutputName("contextro", 1)>>

\* The order in which os.walk (os.scandir) lists the names of a directory
\* is the file system's: the model takes this order or its reverse.
ScandirOrder ==
    << N_xlog, N_build >>
    \o [t \in 1..MaxTime |-> OutputName("contextro", t)]
    \o [t \in 1..MaxTime |-> OutputName("builder", t)]
    \o << N_important, MyIgnore, DotContextignore, N_c, N_d, N_sub, N_foo >>

Reverse(s) == [i \in 1..Len(s) |-> s[Len(s) + 1 - i]]

\* a set of names as the list os.walk gives under the order `order`
Listed(names, order) ==
    LET Present(n) == n \in names
    IN  SelectSeq(order, Present)

VARIABLES
    variant,          \* which class main() constructs: "contextro" or "builder"
    ignore_name,      \* the ignore_file argument of __init__
    ignore_lines,     \* the lines of the ignore file
    ignore_patterns,  \* self.ignore_patterns
    fs,               \* the entries below root_dir
    scandir,          \* the order in which the file system lists names
    now,              \* the clock, in seconds
    pc,               \* "idle", "walk", "done", "failed"
    output_file,      \* the name of the artifact being written
    out,              \* what was written to the artifact: separators and contents
    stack,            \* os.walk's directories still to visit, next first
    root,             \* the directory os.walk yielded last
    files,            \* the rest of `files`, the names the loop has not reached yet
    checked,          \* the calls of _should_ignore of this run, with their result
    errors,           \* the paths reported as "Error processing ..."
    runs,             \* the calls of build_context that returned
    returned          \* what the last build_context returned

vars == << variant, ignore_name, ignore_lines, ignore_patterns, fs, scandir, now, pc,
           output_file, out, stack, root, files, checked, errors, runs, returned >>

(***************************************************************************)
(* __init__: ignore_patterns are the loaded lines, and Contextro appends   *)
(* its built-in pattern after them.                                        *)
(***************************************************************************)
ConstructPatterns(v, lines) ==
    IF v = "contextro" THEN Append(LoadLines(lines), BuiltinPattern)
    ELSE LoadLines(lines)

Init ==
    /\ variant \in {"contextro", "builder"}
    /\ ignore_name \in {DotContextignore, MyIgnore}
    /\ ignore_lines \in IgnoreFiles
    /\ ignore_patterns = ConstructPatterns(variant, ignore_lines)
    /\ \E kind \in [Candidates -> Kinds] :
         \E old \in IF variant = "contextro" THEN {"none", "file", "dir"}
                    ELSE {"none"} :
            fs = { TextFile(p) : p \in PlainFiles }
                 \cup { UserFile(p, kind[p]) : p \in Candidates }
                 \cup { Dir(p) : p \in Dirs }
                 \cup { TextFile(<<ignore_name>>) }
                 \cup (IF old = "file" THEN {TextFile(OldArtifact)}
                       ELSE IF old = "dir" THEN {Dir(OldArtifact)}
                       ELSE {})
    /\ scandir \in {ScandirOrder, Reverse(ScandirOrder)}
    /\ now = 1
    /\ pc = "idle"
    /\ output_file = <<>>
    /\ out = {}
    /\ stack = <<>>
    /\ root = <<>>
    /\ files = <<>>
    /\ checked = {}
    /\ errors = {}
    /\ runs = 0
    /\ returned = <<>>

(***************************************************************************)
(* Helpers of build_context.                                               *)
(***************************************************************************)
Last(path) == path[Len(path)]

Parent(path) == SubSeq(path, 1, Len(path) - 1)

\* os.walk's listing of one directory
Listing(f, top) == { e \in f : e.path # <<>> /\ Parent(e.path) = top }

Entry(path) == CHOOSE e \in fs : e.path = path

\* the matcher of the constructed object, on an entry of the tree
ShouldIgnore(e) ==
    IF variant = "contextro"
    THEN Contextro_should_ignore(ignore_patterns, e.path, e.dir)
    ELSE ContextBuilder_should_ignore(ignore_patterns, e.path)

\* glob.glob(str(self.root_dir / 'contextro_context_*.txt'))
CleanupGlob(f) ==
    { e \in f : Len(e.path) = 1
                /\ fnmatch(e.path[1], ContextroPrefix \o <<"*">> \o TxtSuffix) }

\* os.remove raises on a directory
OsRemoveSucceeds(e) == ~e.dir

\* a slip: nothing is deleted
CleanupDeletesNothing(f) == f

\* _cleanup_old_context_files: what is left when every removal was tried
CleanupOldContextFiles(f) ==
    f \ { e \in CleanupGlob(f) : OsRemoveSucceeds(e) }

\* `f != output_file` compares a str with a Path: they are never equal
StrEqualsPath(name, p) == FALSE

\* files = [f for f in files if f != output_file and f != '.contextignore']
FilterFiles(names) ==
    LET Keep(f) == ~StrEqualsPath(f, output_file) /\ f # DotContextignore
    IN  SelectSeq(names, Keep)

\* open(file_path, 'r', encoding='utf-8') and f.read() succeed
CanRead(e) == e.openable /\ e.utf8

\* a slip: no try/except around the file, the exception leaves build_context
OnFileErrorPropagate == "failed"

\* except Exception as e: print(...) and the loop goes on
OnFileError == "walk"

Separator(path) == [kind |-> "separator", rel |-> RelPath(path)]

Contents(path) == [kind |-> "contents", rel |-> RelPath(path)]

(***************************************************************************)
(* build_context, up to the first directory of os.walk: cleanup (Contextro *)
(* only), the timestamp, and open(output_file, 'w'), which fails when the  *)
(* name is a directory.                                                    *)
(***************************************************************************)
BeginBuild ==
    /\ pc \in {"idle", "done"}
    /\ runs < MaxRuns
    /\ \E t \in now..MaxTime :
         LET cleaned == IF variant = "contextro" THEN CleanupOldContextFiles(fs)
                        ELSE fs
             name == OutputName(variant, t)
         IN  /\ now' = t
             /\ output_file' = name
             /\ IF Dir(<<name>>) \in cleaned
                THEN /\ fs' = cleaned
                     /\ pc' = "failed"
                     /\ stack' = <<>>
                ELSE /\ fs' = { e \in cleaned : e.path # <<name>> }
                              \cup { TextFile(<<name>>) }
                     /\ pc' = "walk"
                     /\ stack' = << <<>> >>
    /\ out' = {}
    /\ root' = <<>>
    /\ files' = <<>>
    /\ checked' = {}
    /\ errors' = {}
    /\ UNCHANGED << variant, ignore_name, ignore_lines, ignore_patterns, scandir,
                    runs, returned >>

(***************************************************************************)
(* One iteration of `for root, dirs, files in os.walk(...)`, up to the     *)
(* loop over files: the name filter, and the pruning of dirs in place.     *)
(***************************************************************************)
VisitDir ==
    /\ pc = "walk"
    /\ files = <<>>
    /\ stack # <<>>
    /\ LET top == Head(stack)
           listing == Listing(fs, top)
           dirs == { e \in listing : e.dir }
           kept == Listed({ Last(e.path) : e \in { d \in dirs : ~ShouldIgnore(d) } },
                          scandir)
       IN  /\ root' = top
           /\ files' = FilterFiles(
                  Listed({ Last(e.path) : e \in { x \in listing : ~x.dir } }, scandir))
           /\ checked' = checked \cup
                  { [path |-> d.path, dir |-> TRUE, ignored |-> ShouldIgnore(d)] :
                    d \in dirs }
           /\ stack' = [i \in 1..Len(kept) |-> Append(top, kept[i])] \o Tail(stack)
    /\ UNCHANGED << variant, ignore_name, ignore_lines, ignore_patterns, fs, scandir,
                    now, pc, output_file, out, errors, runs, returned >>

(***************************************************************************)
(* One iteration of `for file in files`.                                   *)
(***************************************************************************)
ProcessFile(f) ==
    /\ pc = "walk"
    /\ LET e == Entry(Append(root, f))
           ign == ShouldIgnore(e)
       IN  /\ checked' = checked \cup
                  { [path |-> e.path, dir |-> FALSE, ignored |-> ign] }
           /\ IF ign \/ IsBinary(e)
              THEN UNCHANGED << out, errors, pc >>
              ELSE IF CanRead(e)
              THEN /\ out' = out \cup { Separator(e.path), Contents(e.path) }
                   /\ UNCHANGED << errors, pc >>
              ELSE /\ out' = out \cup { Separator(e.path) }
                   /\ errors' = errors \cup { e.path }
                   /\ pc' = OnFileError
    /\ files' = Tail(files)
    /\ UNCHANGED << variant, ignore_name, ignore_lines, ignore_patterns, fs, scandir,
                    now, output_file, stack, root, runs, returned >>

ProcessNext == files # <<>> /\ ProcessFile(Head(files))

(***************************************************************************)
(* os.walk is exhausted: the artifact is closed and its path returned.     *)
(***************************************************************************)
FinishBuild ==
    /\ pc = "walk"
    /\ files = <<>>
    /\ stack = <<>>
    /\ pc' = "done"
    /\ runs' = runs + 1
    /\ returned' = output_file
    /\ UNCHANGED << variant, ignore_name, ignore_lines, ignore_patterns, fs, scandir,
                    now, output_file, out, stack, root, files, checked, errors >>

Next == BeginBuild \/ VisitDir \/ ProcessNext \/ FinishBuild

Spec == Init /\ [][Next]_vars

(***************************************************************************)
(* Vocabulary of the properties.                                           *)
(***************************************************************************)
\* what one pattern of Contextro's list says about a checked path
StepOn(pattern, c) ==
    ContextroPatternStep(pattern, RelPath(c.path),
                         IF c.dir THEN RelPath(c.path) \o <<"/">> ELSE RelPath(c.path))

\* the index of the first pattern that produces a match on c, 0 when none does
FirstMatch(patterns, c) ==
    LET M == { i \in 1..Len(patterns) : StepOn(patterns[i], c) # "next" }
    IN  IF M = {} THEN 0 ELSE CHOOSE i \in M : \A j \in M : i <= j

HasRecord(path) == Separator(path) \in out \/ Contents(path) \in out

\* every directory above the entry was kept by the matcher
AncestorsKept(e) ==
    \A k \in 1..(Len(e.path) - 1) : ~ShouldIgnore(Entry(SubSeq(e.path, 1, k)))

\* a file the walk reaches, keeps, finds to be text and can read
Emittable(e) ==
    /\ ~e.dir
    /\ Last(e.path) # DotContextignore
    /\ AncestorsKept(e)
    /\ ~ShouldIgnore(e)
    /\ e.openable
    /\ \A o \in e.nulls : o >= ChunkSize
    /\ e.utf8

Beneath(path, dir) ==
    Len(path) > Len(dir) /\ SubSeq(path, 1, Len(dir)) = dir

\* the name of an artifact the constructed variant generates
IsArtifactName(name) ==
    IF variant = "contextro"
    THEN fnmatch(name, ContextroPrefix \o <<"*">> \o TxtSuffix)
    ELSE fnmatch(name, BuilderPrefix \o <<"*">> \o TxtSuffix)

(***************************************************************************)
(* C1.  Contextro._should_ignore is first-match-wins in file order: the    *)
(* result of every call a run has made is ignore when the first pattern    *)
(* that produces a match is not negated, keep when it starts with '!',     *)
(* keep when no pattern matches; and the patterns after the first match    *)
(* do not count: the list cut after it gives the same result.              *)
(***************************************************************************)
C1_FirstMatchWins ==
    (variant = "contextro" /\ pc = "done") =>
        \A c \in checked :
            LET k == FirstMatch(ignore_patterns, c)
            IN  /\ k = 0 => ~c.ignored
                /\ k > 0 => /\ c.ignored = ~StartsWith(ignore_patterns[k], "!")
                            /\ c.ignored = Contextro_should_ignore(
                                   SubSeq(ignore_patterns, 1, k), c.path, c.dir)

\* x.log was ignored by *.log although the later !x.log matches it too
C1_Witness ==
    /\ variant = "contextro"
    /\ [path |-> <<N_xlog>>, dir |-> FALSE, ignored |-> TRUE] \in checked
    /\ \E j \in 1..Len(ignore_patterns) :
          /\ j > FirstMatch(ignore_patterns, Entry(<<N_xlog>>))
          /\ StepOn(ignore_patterns[j], Entry(<<N_xlog>>)) = "keep"

(***************************************************************************)
(* C2.  A negated pattern !P reached before any other pattern has matched  *)
(* returns keep whenever the relative path matches one of the expansions   *)
(* P, **/P, **/P/** of the stripped pattern.                               *)
(***************************************************************************)
C2_NegationExpansionsKeep ==
    variant = "contextro" =>
        \A c \in checked :
            \A i \in 1..Len(ignore_patterns) :
                ( /\ StartsWith(ignore_patterns[i], "!")
                  /\ \A j \in 1..(i - 1) : StepOn(ignore_patterns[j], c) = "next"
                  /\ \E v \in 1..3 :
                        fnmatch(RelPath(c.path),
                                PatternVariations(Tail(ignore_patterns[i]))[v]) )
                => ~c.ignored

(***************************************************************************)
(* C3.  The output artifact is never treated as input: no record is        *)
(* emitted for a file named like an artifact the variant generates.        *)
(***************************************************************************)
C3_NoArtifactRecord ==
    \A e \in fs : (~e.dir /\ IsArtifactName(Last(e.path))) => ~HasRecord(e.path)

(***************************************************************************)
(* C4.  With a directory-only pattern P/ and no earlier pattern matching,  *)
(* Contextro ignores every directory named P, at the root or below, and    *)
(* build_context prunes it: nothing beneath it is looked at or emitted.    *)
(***************************************************************************)
C4_DirPatternPrunes ==
    variant = "contextro" =>
        \A i \in 1..Len(ignore_patterns) :
            \A d \in fs :
                ( /\ d.dir
                  /\ ignore_patterns[i] = Last(d.path) \o <<"/">>
                  /\ \A j \in 1..(i - 1) : StepOn(ignore_patterns[j], d) = "next" )
                => /\ Contextro_should_ignore(ignore_patterns, d.path, d.dir)
                   /\ \A c \in checked : c.path = d.path => c.ignored
                   /\ \A e \in fs : Beneath(e.path, d.path) =>
                          /\ ~HasRecord(e.path)
                          /\ \A c \in checked : c.path # e.path

\* foo/ pruned foo at the root and sub/foo below it, and the run emitted files
C4_Witness ==
    /\ variant = "contextro"
    /\ pc = "done"
    /\ \E i \in 1..Len(ignore_patterns) : ignore_patterns[i] = N_foo \o <<"/">>
    /\ [path |-> <<N_foo>>, dir |-> TRUE, ignored |-> TRUE] \in checked
    /\ [path |-> <<N_sub, N_foo>>, dir |-> TRUE, ignored |-> TRUE] \in checked
    /\ Contents(<<N_sub, N_important>>) \in out
    /\ ~HasRecord(<<N_sub, N_foo, N_d>>)

C6_FailedFileHasNoRecord ==
    \A e \in fs : (~e.dir /\ ~CanRead(e)) => ~HasRecord(e.path)

(***************************************************************************)
(* C7.  As claimed: after two runs of Contextro.build_context exactly one  *)
(* entry of the root matches contextro_context_*.txt, the artifact of the  *)
(* second run, whatever matched before.                                    *)
(***************************************************************************)
C7_ExactlyOneArtifact ==
    (variant = "contextro" /\ runs >= 2 /\ pc = "done")
        => CleanupGlob(fs) = { TextFile(<<returned>>) }

(***************************************************************************)
(* C7, amended.  After two runs of Contextro.build_context that both       *)
(* returned, the entries of the root matching contextro_context_*.txt are  *)
(* the artifact of the last run and the entries os.remove cannot delete    *)
(* (directories); exactly one entry when there is no such directory.       *)
(***************************************************************************)
C7_OneArtifactPlusUndeletable ==
    (variant = "contextro" /\ runs >= 2 /\ pc = "done") =>
        /\ TextFile(<<returned>>) \in fs
        /\ \A e \in CleanupGlob(fs) : e.path = <<returned>> \/ ~OsRemoveSucceeds(e)
        /\ (\A e \in CleanupGlob(fs) : OsRemoveSucceeds(e))
              => Cardinality(CleanupGlob(fs)) = 1

\* two runs a second apart: the first run's artifact is gone, the second's is there
C7_Witness ==
    /\ variant = "contextro"
    /\ runs = 2
    /\ pc = "done"
    /\ returned = OutputName("contextro", 2)
    /\ CleanupGlob(fs) = { TextFile(<<returned>>) }

(***************************************************************************)
(* C8.  Whatever ignore-file name was given at construction, the ignore    *)
(* file at the root is never emitted as a record.                          *)
(***************************************************************************)
C8_IgnoreFileNeverEmitted == ~HasRecord(<<ignore_name>>)

(***************************************************************************)
(* C9.  A file with a null byte in its first 1024 bytes, or that cannot    *)
(* be opened for the binary check, is never emitted, whatever the          *)
(* patterns say; a null byte only after the first 1024 bytes does not      *)
(* make the file binary: when the run returns such a file was emitted.     *)
(***************************************************************************)
C9_BinaryNeverEmitted ==
    \A e \in fs :
        ~e.dir =>
            /\ (~e.openable \/ \E o \in e.nulls : o < 1024) => ~HasRecord(e.path)
            /\ (pc = "done" /\ e.nulls # {} /\ Emittable(e))
                  => Contents(e.path) \in out

\* under !* a file with a null byte at offset 1023 was kept by the matcher and
\* not emitted, and a file with a null byte at offset 1024 was emitted
C9_Witness ==
    /\ pc = "done"
    /\ ignore_patterns[1] = L_notall
    /\ \E e \in fs :
          /\ e.nulls = {1023}
          /\ [path |-> e.path, dir |-> FALSE, ignored |-> FALSE] \in checked
          /\ ~HasRecord(e.path)
    /\ \E e \in fs : e.nulls = {1024} /\ Contents(e.path) \in out

(***************************************************************************)
(* C10.  The simple matcher is a subset of the richer one: whenever        *)
(* ContextBuilder._should_ignore ignores a path under the user patterns,   *)
(* Contextro._should_ignore loaded with the same user patterns does too.   *)
(***************************************************************************)
C10_SimpleSubsetOfRicher ==
    \A c \in checked :
        ContextBuilder_should_ignore(ConstructPatterns("builder", ignore_lines), c.path)
            => Contextro_should_ignore(ConstructPatterns("contextro", ignore_lines),
                                       c.path, c.dir)

=============================================================================
